---- MODULE Spec2Model ----
(***************************************************************************)
(* Model of package ssh's top-level API (ssh.go): the process-wide         *)
(* DefaultHandler, Handle, Serve, ListenAndServe and KeysEqual.            *)
(*                                                                         *)
(* Spec      sequential calls of the API, each call one action.            *)
(* SpecConc  goroutines calling Handle while a serving goroutine reads     *)
(*           DefaultHandler; every memory access has a begin and an end    *)
(*           step because the code takes no lock around it.                *)
(***************************************************************************)
EXTENDS Integers, Sequences, FiniteSets, TLC

VARIABLES DefaultHandler, lastHandle, last, acc, obs

vars == <<DefaultHandler, lastHandle, last, acc, obs>>

\* ---------------------------------------------------------------- bounds
\* longest options list passed to Serve / ListenAndServe
MaxOpts == 2
\* longest Marshal() output of a key, in bytes
MaxLen == 2
\* most sessions accepted during one serving call
MaxSessions == 1

\* ---------------------------------------------------------------- values
\* the nil Handler / nil error / nil PublicKey
Nil == "nil"

\* non-nil Handler values
Handlers == {"h1", "h2"}

\* what Handle can be given
HandlerArgs == Handlers \cup {Nil}

\* the positional handler of Serve / ListenAndServe ("typically nil")
PositionalHandlers == {Nil, "h1"}

\* the positional addr of ListenAndServe
PositionalAddrs == {"a1"}

\* errors an option can return
OptionErrors == {"e1", "e2"}

\* error of a failed bind in srv.ListenAndServe
ErrBind == "errBind"

\* type Option func(*Server) error, as data: the field it assigns (if any),
\* the value, and the error it returns
OptHandler(h) == [field |-> "Handler", val |-> h, err |-> Nil]

OptAddr(a) == [field |-> "Addr", val |-> a, err |-> Nil]

OptFail(e) == [field |-> "none", val |-> Nil, err |-> e]

Options ==
    {OptHandler(h) : h \in Handlers} \cup {OptAddr("a2")}
        \cup {OptFail(e) : e \in OptionErrors}

\* all options lists of length 0..n
RECURSIVE OptionLists(_)
OptionLists(n) ==
    IF n = 0 THEN {<<>>}
    ELSE LET shorter == OptionLists(n - 1)
         IN  shorter \cup {Append(s, o) : s \in {t \in shorter : Len(t) = n - 1},
                                          o \in Options}

\* events of one call, in the order they happen
Ev(ev, i, val) == [ev |-> ev, i |-> i, val |-> val]

\* ---------------------------------------------------------------- Server
\* the calls that build a Server
ServerCalls == {"Serve", "ListenAndServe"}

\* mutant: the Server of the previous call is reused, its Handler overwritten
NewServerReused(addr, handler) ==
    IF last.op \in ServerCalls
    THEN [Addr    |-> IF addr = "" THEN last.srv.Addr ELSE addr,
          Handler |-> handler]
    ELSE [Addr |-> addr, Handler |-> handler]

\* &Server{Handler: handler}  /  &Server{Addr: addr, Handler: handler}
NewServer(addr, handler) == [Addr |-> addr, Handler |-> handler]

\* srv.SetOption(option): runs the option on the server
SetOption(srv, option) ==
    IF option.err # Nil
    THEN [srv |-> srv, err |-> option.err]
    ELSE [srv |-> [srv EXCEPT ![option.field] = option.val], err |-> Nil]

\* for _, option := range options { if err := srv.SetOption(option); err != nil
\* { return err } }, from index i on
RECURSIVE ApplyFrom(_, _, _, _)
ApplyFrom(srv, options, i, trace) ==
    IF i > Len(options)
    THEN [srv |-> srv, err |-> Nil, trace |-> trace]
    ELSE LET r == SetOption(srv, options[i])
             t == Append(trace, Ev("option", i, Nil))
         IN  IF r.err # Nil
             THEN [srv |-> r.srv, err |-> r.err, trace |-> t]
             ELSE ApplyFrom(r.srv, options, i + 1, t)

\* mutant: the loop remembers the first error and keeps going
RECURSIVE ApplyAllKeepFirstError(_, _, _, _, _)
ApplyAllKeepFirstError(srv, options, i, trace, err) ==
    IF i > Len(options)
    THEN [srv |-> srv, err |-> err, trace |-> trace]
    ELSE LET r == SetOption(srv, options[i])
         IN  ApplyAllKeepFirstError(r.srv, options, i + 1,
                                    Append(trace, Ev("option", i, Nil)),
                                    IF err = Nil THEN r.err ELSE err)

ApplyOptionsNoAbort(srv, options) ==
    ApplyAllKeepFirstError(srv, options, 1, <<>>, Nil)

\* mutant: an option naming a field that an earlier option set is skipped
RECURSIVE ApplyFirstWins(_, _, _, _, _)
ApplyFirstWins(srv, options, i, trace, done) ==
    IF i > Len(options)
    THEN [srv |-> srv, err |-> Nil, trace |-> trace]
    ELSE LET o == options[i]
             r == IF o.field \in done THEN [srv |-> srv, err |-> Nil]
                  ELSE SetOption(srv, o)
             t == Append(trace, Ev("option", i, Nil))
         IN  IF r.err # Nil
             THEN [srv |-> r.srv, err |-> r.err, trace |-> t]
             ELSE ApplyFirstWins(r.srv, options, i + 1, t, done \cup {o.field})

ApplyOptionsFirstWins(srv, options) ==
    ApplyFirstWins(srv, options, 1, <<>>, {})

\* the options loop of Serve and of ListenAndServe
ApplyOptions(srv, options) == ApplyFrom(srv, options, 1, <<>>)

\* the handler a serving Server runs sessions with: "Handler is typically nil,
\* in which case the DefaultHandler is used"
EffectiveHandler(srv, dh) == IF srv.Handler = Nil THEN dh ELSE srv.Handler

\* srv.Serve(l): accepts n sessions from the listener, runs each with the
\* effective handler, and returns nil when the listener is closed
SrvServe(srv, dh, n) ==
    [err   |-> Nil,
     trace |-> [k \in 1..n |-> Ev("session", k, EffectiveHandler(srv, dh))]]

\* srv.ListenAndServe(): opens a listener on srv.Addr, then srv.Serve on it
SrvListenAndServe(srv, dh, bindOK, n) ==
    IF ~bindOK
    THEN [err |-> ErrBind, trace |-> <<>>]
    ELSE LET s == SrvServe(srv, dh, n)
         IN  [err   |-> s.err,
              trace |-> <<Ev("listen", 0, srv.Addr), Ev("srv.Serve", 0, Nil)>>
                          \o s.trace]

\* func Serve(l, handler, options...): what the call does and returns
ServeCall(handler, options, dh, n) ==
    LET a == ApplyOptions(NewServer("", handler), options)
    IN  IF a.err # Nil
        THEN [srv |-> a.srv, err |-> a.err, trace |-> a.trace]
        ELSE LET s == SrvServe(a.srv, dh, n)
             IN  [srv |-> a.srv, err |-> s.err,
                  trace |-> a.trace \o <<Ev("srv.Serve", 0, Nil)>> \o s.trace]

\* mutant: srv.ListenAndServe runs first and the options are applied afterwards
ListenAndServeCallListenFirst(addr, handler, options, dh, bindOK, n) ==
    LET first == NewServer(addr, handler)
        s == SrvListenAndServe(first, dh, bindOK, n)
        a == ApplyOptions(first, options)
    IN  [srv |-> a.srv, err |-> IF s.err # Nil THEN s.err ELSE a.err,
         trace |-> <<Ev("srv.ListenAndServe", 0, Nil)>> \o s.trace \o a.trace]

\* func ListenAndServe(addr, handler, options...)
ListenAndServeCall(addr, handler, options, dh, bindOK, n) ==
    LET a == ApplyOptions(NewServer(addr, handler), options)
    IN  IF a.err # Nil
        THEN [srv |-> a.srv, err |-> a.err, trace |-> a.trace]
        ELSE LET s == SrvListenAndServe(a.srv, dh, bindOK, n)
             IN  [srv |-> a.srv, err |-> s.err,
                  trace |-> a.trace \o <<Ev("srv.ListenAndServe", 0, Nil)>>
                              \o s.trace]

\* ---------------------------------------------------------------- KeysEqual
\* byte values a serialization is made of
ByteVals == {1, 130}

\* all byte sequences of length 0..n
RECURSIVE ByteSeqs(_)
ByteSeqs(n) ==
    IF n = 0 THEN {<<>>}
    ELSE LET shorter == ByteSeqs(n - 1)
         IN  shorter \cup {Append(s, b) : s \in {t \in shorter : Len(t) = n - 1},
                                          b \in ByteVals}

\* a PublicKey is nil or an object whose Marshal() yields its wire bytes
NilKey == [nil |-> TRUE, wire |-> <<>>]

Keys == {NilKey} \cup {[nil |-> FALSE, wire |-> w] : w \in ByteSeqs(MaxLen)}

\* PublicKey.Marshal()
Marshal(k) == k.wire

\* x ^ y and x | y on unsigned integers
RECURSIVE Xor(_, _)
Xor(x, y) ==
    IF x = 0 THEN y
    ELSE IF y = 0 THEN x
    ELSE (((x % 2) + (y % 2)) % 2) + 2 * Xor(x \div 2, y \div 2)

RECURSIVE Or(_, _)
Or(x, y) ==
    IF x = 0 THEN y
    ELSE IF y = 0 THEN x
    ELSE (IF (x % 2) + (y % 2) > 0 THEN 1 ELSE 0) + 2 * Or(x \div 2, y \div 2)

\* subtle.ConstantTimeByteEq(x, y): int((uint32(x^y) - 1) >> 31); the uint32 is
\* kept as two 16-bit halves, the subtraction borrowing from the high half
ConstantTimeByteEq(x, y) ==
    LET z  == Xor(x, y)
        lo == z % 65536
        hi == z \div 65536
        borrow == IF lo = 0 THEN 1 ELSE 0
        hi1 == (hi - borrow) % 65536
    IN  hi1 \div 32768

\* the loop of subtle.ConstantTimeCompare: v |= x[i] ^ y[i] for every i
RECURSIVE CompareLoop(_, _, _, _)
CompareLoop(x, y, i, v) ==
    IF i > Len(x) THEN [v |-> v, iters |-> i - 1]
    ELSE CompareLoop(x, y, i + 1, Or(v, Xor(x[i], y[i])))

\* subtle.ConstantTimeCompare(x, y): 1 iff equal; 0 at once on unequal lengths
ConstantTimeCompare(x, y) ==
    IF Len(x) # Len(y) THEN [ret |-> 0, iters |-> 0]
    ELSE LET l == CompareLoop(x, y, 1, 0)
         IN  [ret |-> ConstantTimeByteEq(l.v, 0), iters |-> l.iters]

\* Marshal on a key, as a step of KeysEqual: a nil key panics
MarshalStep(k, who) ==
    IF k = NilKey THEN [panic |-> TRUE, bytes |-> <<>>, trace |-> <<"panic">>]
    ELSE [panic |-> FALSE, bytes |-> Marshal(k), trace |-> <<who>>]

\* a := ak.Marshal(); b := bk.Marshal();
\* return len(a) == len(b) && subtle.ConstantTimeCompare(a, b) == 1
KeysEqualBody(ak, bk) ==
    LET ma == MarshalStep(ak, "marshal_a")
        mb == MarshalStep(bk, "marshal_b")
    IN  IF ma.panic
        THEN [result |-> FALSE, panicked |-> TRUE, trace |-> ma.trace, iters |-> 0]
        ELSE IF mb.panic
        THEN [result |-> FALSE, panicked |-> TRUE, trace |-> ma.trace \o mb.trace,
              iters |-> 0]
        ELSE IF Len(ma.bytes) # Len(mb.bytes)
        THEN [result |-> FALSE, panicked |-> FALSE, iters |-> 0,
              trace  |-> ma.trace \o mb.trace \o <<"len">>]
        ELSE LET c == ConstantTimeCompare(ma.bytes, mb.bytes)
             IN  [result |-> (c.ret = 1), panicked |-> FALSE, iters |-> c.iters,
                  trace  |-> ma.trace \o mb.trace \o <<"len", "compare">>]

\* mutant: the nil guard tests ak == nil && bk == nil
KeysEqualNilAnd(ak, bk) ==
    IF ak = NilKey /\ bk = NilKey
    THEN [result |-> FALSE, panicked |-> FALSE, trace |-> <<>>, iters |-> 0]
    ELSE KeysEqualBody(ak, bk)

\* mutant: only the lengths are compared
KeysEqualLenOnly(ak, bk) ==
    IF ak = NilKey \/ bk = NilKey
    THEN [result |-> FALSE, panicked |-> FALSE, trace |-> <<>>, iters |-> 0]
    ELSE [result |-> (Len(Marshal(ak)) = Len(Marshal(bk))), panicked |-> FALSE,
          iters  |-> 0,
          trace  |-> <<"marshal_a", "marshal_b", "len">>]

\* mutant: the comparison runs first and the lengths are tested afterwards
KeysEqualCompareFirst(ak, bk) ==
    IF ak = NilKey \/ bk = NilKey
    THEN [result |-> FALSE, panicked |-> FALSE, trace |-> <<>>, iters |-> 0]
    ELSE LET c == ConstantTimeCompare(Marshal(ak), Marshal(bk))
         IN  [result |-> (c.ret = 1 /\ Len(Marshal(ak)) = Len(Marshal(bk))),
              panicked |-> FALSE, iters |-> c.iters,
              trace  |-> <<"marshal_a", "marshal_b", "compare", "len">>]

\* func KeysEqual(ak, bk PublicKey) bool, with the steps it took
KeysEqual(ak, bk) ==
    IF ak = NilKey \/ bk = NilKey
    THEN [result |-> FALSE, panicked |-> FALSE, trace |-> <<>>, iters |-> 0]
    ELSE KeysEqualBody(ak, bk)

\* ---------------------------------------------------------------- Handle
\* mutant: Handle registers only when nothing is registered yet
HandleAssignOnce(old, handler) == IF old = Nil THEN handler ELSE old

\* mutant: Handle assigns a shadowing local (DefaultHandler := handler)
HandleAssignDropped(old, handler) == old

\* mutant: Handle ignores a nil handler
HandleAssignNonNil(old, handler) == IF handler = Nil THEN old ELSE handler

\* DefaultHandler = handler
HandleAssign(old, handler) == handler

\* ---------------------------------------------------------------- state
\* goroutines that call Handle, and the serving goroutine that reads
\* DefaultHandler
Callers == {"g1", "g2"}

Readers == {"s1"}

Goroutines == Callers \cup Readers

Idle == [kind |-> "idle"]

NoCall == [op |-> "none"]

NoObs == [done |-> FALSE, val |-> Nil, raced |-> FALSE, registered |-> Nil]

Init ==
    /\ DefaultHandler = Nil
    /\ lastHandle = Nil
    /\ last = NoCall
    /\ acc = [g \in Goroutines |-> Idle]
    /\ obs = NoObs

\* ---------------------------------------------------------------- sequential API
\* Handle(handler)
Handle(handler) ==
    /\ DefaultHandler' = HandleAssign(DefaultHandler, handler)
    /\ lastHandle' = handler
    /\ last' = [op |-> "Handle", handler |-> handler]
    /\ UNCHANGED <<acc, obs>>

\* Serve(l, handler, options...) with n sessions arriving while it serves
Serve(handler, options, n) ==
    LET r == ServeCall(handler, options, DefaultHandler, n)
    IN  /\ last' = [op |-> "Serve", addr |-> "", handler |-> handler,
                    options |-> options,
                    srv |-> r.srv, err |-> r.err, trace |-> r.trace]
        /\ UNCHANGED <<DefaultHandler, lastHandle, acc, obs>>

\* ListenAndServe(addr, handler, options...)
ListenAndServe(addr, handler, options, bindOK, n) ==
    LET r == ListenAndServeCall(addr, handler, options, DefaultHandler,
                                bindOK, n)
    IN  /\ last' = [op |-> "ListenAndServe", addr |-> addr, handler |-> handler,
                    options |-> options,
                    srv |-> r.srv, err |-> r.err, trace |-> r.trace]
        /\ UNCHANGED <<DefaultHandler, lastHandle, acc, obs>>

\* KeysEqual(ak, bk)
KeysEqualCall(ak, bk) ==
    /\ last' = [op |-> "KeysEqual", ak |-> ak, bk |-> bk, ret |-> KeysEqual(ak, bk)]
    /\ UNCHANGED <<DefaultHandler, lastHandle, acc, obs>>

\* what the network does during a call: whether the bind succeeds and how many
\* sessions arrive; nothing arrives at a call that never starts to serve
Rejected(options) == \E i \in DOMAIN options : options[i].err # Nil

SessionCounts(options) == IF Rejected(options) THEN {0} ELSE 0..MaxSessions

NetInputs(options) ==
    IF Rejected(options) THEN {<<TRUE, 0>>}
    ELSE {<<FALSE, 0>>} \cup {<<TRUE, n>> : n \in 0..MaxSessions}

Next ==
    \/ \E h \in HandlerArgs : Handle(h)
    \/ \E h \in PositionalHandlers, os \in OptionLists(MaxOpts) :
          \E n \in SessionCounts(os) : Serve(h, os, n)
    \/ \E a \in PositionalAddrs, h \in PositionalHandlers,
          os \in OptionLists(MaxOpts) :
          \E net \in NetInputs(os) : ListenAndServe(a, h, os, net[1], net[2])
    \/ \E ak \in Keys, bk \in Keys : KeysEqualCall(ak, bk)

Spec == Init /\ [][Next]_vars

\* ---------------------------------------------------------------- goroutines
\* no lock is taken around DefaultHandler, so an access by one goroutine can
\* still be under way when another goroutine starts its own
Writing(g) == acc[g].kind = "write"

Reading(g) == acc[g].kind = "read"

\* a Handle call by goroutine g starts to store handler
HandleBegin(g, handler) ==
    /\ acc[g].kind = "idle"
    /\ acc' = [x \in Goroutines |->
                 IF x = g THEN [kind |-> "write", val |-> handler]
                 ELSE IF Reading(x) THEN [acc[x] EXCEPT !.raced = TRUE]
                 ELSE acc[x]]
    /\ UNCHANGED <<DefaultHandler, lastHandle, last, obs>>

\* the store of DefaultHandler = handler lands and Handle returns
HandleEnd(g) ==
    /\ Writing(g)
    /\ DefaultHandler' = HandleAssign(DefaultHandler, acc[g].val)
    /\ lastHandle' = acc[g].val
    /\ acc' = [acc EXCEPT ![g] = Idle]
    /\ UNCHANGED <<last, obs>>

\* the serving goroutine starts to read DefaultHandler
ReadBegin(r) ==
    /\ acc[r].kind = "idle"
    /\ acc' = [acc EXCEPT ![r] = [kind  |-> "read",
                                  seen  |-> DefaultHandler,
                                  raced |-> \E g \in Callers : Writing(g)]]
    /\ UNCHANGED <<DefaultHandler, lastHandle, last, obs>>

\* what a read can return: the variable's value, or, when a store ran during
\* the read, also the value from before it or the one being stored
ReadOutcomes(r) ==
    IF acc[r].raced
    THEN {DefaultHandler, acc[r].seen} \cup {acc[g].val : g \in {x \in Callers : Writing(x)}}
    ELSE {DefaultHandler}

\* the read completes
ReadEnd(r) ==
    /\ Reading(r)
    /\ \E v \in ReadOutcomes(r) :
          obs' = [done |-> TRUE, val |-> v, raced |-> acc[r].raced,
                  registered |-> lastHandle]
    /\ acc' = [acc EXCEPT ![r] = Idle]
    /\ UNCHANGED <<DefaultHandler, lastHandle, last>>

NextConc ==
    \/ \E g \in Callers, h \in HandlerArgs : HandleBegin(g, h)
    \/ \E g \in Callers : HandleEnd(g)
    \/ \E r \in Readers : ReadBegin(r)
    \/ \E r \in Readers : ReadEnd(r)

SpecConc == Init /\ [][NextConc]_vars

\* a store to DefaultHandler is under way while another goroutine stores or reads
UnsynchronizedAccess ==
    \E g \in Callers, x \in Goroutines :
        /\ x # g
        /\ Writing(g)
        /\ Writing(x) \/ Reading(x)

\* ---------------------------------------------------------------- properties
\* helpers that read the record of the most recent call
IsKeysEqual == last.op = "KeysEqual"

IsServerCall == last.op \in ServerCalls

\* index of the first option that returns an error, 0 when none does
FirstFailing(options) ==
    LET F == {i \in DOMAIN options : options[i].err # Nil}
    IN  IF F = {} THEN 0 ELSE CHOOSE i \in F : \A j \in F : i <= j

\* positions of the events of one kind in a trace
Positions(trace, ev) == {k \in DOMAIN trace : trace[k].ev = ev}

\* the options that ran to completion in the most recent call
Completed(options) ==
    LET f == FirstFailing(options)
    IN  IF f = 0 THEN DOMAIN options ELSE 1..(f - 1)

\* the value field carries after the options in idx ran over start: that of
\* the last one naming the field
FieldAfter(options, idx, field, start) ==
    LET S == {i \in idx : options[i].field = field}
    IN  IF S = {} THEN start
        ELSE options[CHOOSE i \in S : \A j \in S : j <= i].val

\* options without the entries that repeat the entry just before them
RECURSIVE Dedup(_)
Dedup(options) ==
    IF Len(options) <= 1 THEN options
    ELSE LET n == Len(options)
             front == Dedup(SubSeq(options, 1, n - 1))
         IN  IF options[n] = options[n - 1] THEN front
             ELSE Append(front, options[n])

SameBytes(a, b) == Len(a) = Len(b) /\ \A i \in 1..Len(a) : a[i] = b[i]

\* C1: KeysEqual returns false whenever at least one key is nil, nil/nil
\* included, and in none of these cases is Marshal called or a panic raised.
C1_NilKeyIsNeverEqual ==
    (IsKeysEqual /\ (last.ak = NilKey \/ last.bk = NilKey)) =>
        /\ last.ret.result = FALSE
        /\ last.ret.panicked = FALSE
        /\ \A k \in DOMAIN last.ret.trace :
              last.ret.trace[k] \notin {"marshal_a", "marshal_b", "panic"}

C1_Witness ==
    /\ IsKeysEqual
    /\ last.ak # NilKey
    /\ Len(last.ak.wire) > 0
    /\ last.bk = NilKey
    /\ last.ret.result = FALSE

\* C2: KeysEqual(a, b) is true iff both keys are non-nil and their
\* serializations have the same length and the same bytes; so it is reflexive
\* on non-nil keys and symmetric.
C2_EqualIffSameSerialization ==
    IsKeysEqual =>
        /\ last.ret.result =
              (/\ last.ak # NilKey
               /\ last.bk # NilKey
               /\ SameBytes(Marshal(last.ak), Marshal(last.bk)))
        /\ (last.ak # NilKey /\ last.ak = last.bk) => last.ret.result = TRUE
        /\ KeysEqual(last.bk, last.ak).result = last.ret.result

C2_Witness ==
    /\ IsKeysEqual
    /\ last.ak # NilKey
    /\ last.bk # NilKey
    /\ Len(last.ak.wire) = 2
    /\ Len(last.bk.wire) = 2
    /\ last.ak.wire[1] = last.bk.wire[1]
    /\ last.ak.wire[2] # last.bk.wire[2]
    /\ last.ret.result = FALSE

\* C9: with both keys non-nil the lengths are compared before any content is,
\* the constant-time comparison runs only on equal lengths, and on equal
\* lengths it runs over every byte whatever the contents.
C9_LengthDecidedBeforeContent ==
    (IsKeysEqual /\ last.ak # NilKey /\ last.bk # NilKey) =>
        LET t == last.ret.trace
            lens == {k \in DOMAIN t : t[k] = "len"}
            cmps == {k \in DOMAIN t : t[k] = "compare"}
            a == Marshal(last.ak)
            b == Marshal(last.bk)
        IN  /\ Cardinality(lens) = 1
            /\ \A c \in cmps : \A l \in lens : l < c
            /\ (cmps # {}) = (Len(a) = Len(b))
            /\ Len(a) # Len(b) => (last.ret.iters = 0 /\ last.ret.result = FALSE)
            /\ Len(a) = Len(b) => (Cardinality(cmps) = 1 /\ last.ret.iters = Len(a))

C9_Witness ==
    /\ IsKeysEqual
    /\ last.ak # NilKey
    /\ last.bk # NilKey
    /\ Len(last.ak.wire) = 2
    /\ Len(last.bk.wire) = 2
    /\ last.ak.wire[1] # last.bk.wire[1]
    /\ last.ret.iters = 2
    /\ last.ret.result = FALSE

\* C3: Serve applies the options one at a time in argument order; the first
\* error is what Serve returns, no later option is applied, and srv.Serve is
\* not called, so no session is accepted.
C3_ServeStopsAtFirstError ==
    last.op = "Serve" =>
        LET os == last.options
            t == last.trace
            f == FirstFailing(os)
            m == IF f = 0 THEN Len(os) ELSE f
        IN  /\ Positions(t, "option") = 1..m
            /\ \A k \in 1..m : t[k].i = k
            /\ f # 0 => /\ last.err = os[f].err
                        /\ Len(t) = m
                        /\ Positions(t, "srv.Serve") = {}
                        /\ Positions(t, "session") = {}
            /\ f = 0 => Positions(t, "srv.Serve") = {m + 1}

C3_Witness ==
    /\ last.op = "Serve"
    /\ Len(last.options) = 2
    /\ last.options[1].err # Nil
    /\ last.options[2].err \notin {Nil, last.options[1].err}
    /\ last.err = last.options[1].err

\* C4: ListenAndServe calls srv.ListenAndServe, which opens the listener, only
\* after every option was applied without error, and exactly once; when an
\* option fails its error is returned and no listener is opened.
C4_ListenOnlyAfterOptions ==
    last.op = "ListenAndServe" =>
        LET os == last.options
            t == last.trace
            f == FirstFailing(os)
            n == Len(os)
        IN  /\ f # 0 => /\ last.err = os[f].err
                        /\ Positions(t, "srv.ListenAndServe") = {}
                        /\ Positions(t, "listen") = {}
            /\ f = 0 => /\ Positions(t, "option") = 1..n
                        /\ Positions(t, "srv.ListenAndServe") = {n + 1}
                        /\ Positions(t, "listen") \subseteq {n + 2}
                        /\ (last.err = Nil) = (Positions(t, "listen") # {})

C4_Witness ==
    /\ last.op = "ListenAndServe"
    /\ Len(last.options) = 2
    /\ FirstFailing(last.options) = 0
    /\ Positions(last.trace, "listen") = {4}
    /\ last.trace[4].val = "a2"

C6_OnlyHandleSetsDefault ==
    /\ DefaultHandler = lastHandle
    /\ last.op = "Handle" => DefaultHandler = last.handler
    /\ last.op = "none" => DefaultHandler = Nil

C6_Witness ==
    /\ last.op = "Serve"
    /\ last.handler = "h1"
    /\ last.err = Nil
    /\ last.srv.Handler = "h1"
    /\ lastHandle = "h2"
    /\ DefaultHandler = "h2"

C10_FreshServerPerCall ==
    IsServerCall =>
        LET os == last.options
            idx == Completed(os)
        IN  /\ last.op = "Serve" => last.addr = ""
            /\ last.srv.Addr = FieldAfter(os, idx, "Addr", last.addr)
            /\ last.srv.Handler = FieldAfter(os, idx, "Handler", last.handler)
            /\ DOMAIN last.srv = {"Addr", "Handler"}

C10_Witness ==
    /\ last.op = "ListenAndServe"
    /\ last.addr = "a1"
    /\ last.handler = "h1"
    /\ last.options = <<OptAddr("a2"), OptHandler("h2")>>
    /\ last.srv.Addr = "a2"
    /\ last.srv.Handler = "h2"

\* C8 as claimed: the default handler is mutex-protected, so no store to it is
\* ever under way while another goroutine stores or reads it.
C8_NoUnsynchronizedAccess == ~UnsynchronizedAccess

\* C8 as amended: DefaultHandler is a bare variable that Handle stores with no
\* lock, so accesses can overlap; a read of it that no Handle call overlaps
\* returns the handler registered by the most recent Handle call.
C8_UndisturbedReadSeesLastHandle ==
    (obs.done /\ ~obs.raced) => obs.val = obs.registered

C8_Witness ==
    /\ obs.done
    /\ ~obs.raced
    /\ obs.val = "h2"
    /\ obs.registered = "h2"
    /\ \A g \in Goroutines : acc[g].kind = "idle"

====
